---------------------------- MODULE Spec2Model ----------------------------
(***************************************************************************)
(* The preloaded schema/guide index (framework/index.py) and the per-agent *)
(* dedup caches of the tools built on it (tools/explore_database.py,       *)
(* tools/get_business_rules.py).                                           *)
(*                                                                         *)
(* A Python str is a sequence of one-character strings.  A Python dict is  *)
(* an association list (a sequence of <<key, value>> pairs) in insertion   *)
(* order.  A returned text is a sequence of fragments; a fragment is a     *)
(* literal of the source or a computed string.                             *)
(***************************************************************************)
EXTENDS Integers, Sequences, FiniteSets, TLC

(***************************************************************************)
(* Characters and the str methods the code uses                            *)
(***************************************************************************)

\* The printable ASCII characters, code points 32 .. 126, in order (the grave
\* accent, code point 96, cannot be written in a string here and is named).
Printable ==
  << " ", "!", "\"", "#", "$", "%", "&", "'", "(", ")", "*", "+", ",", "-", ".", "/",
     "0", "1", "2", "3", "4", "5", "6", "7", "8", "9", ":", ";", "<", "=", ">", "?",
     "@", "A", "B", "C", "D", "E", "F", "G", "H", "I", "J", "K", "L", "M", "N", "O",
     "P", "Q", "R", "S", "T", "U", "V", "W", "X", "Y", "Z", "[", "\\", "]", "^", "_",
     "GRAVE", "a", "b", "c", "d", "e", "f", "g", "h", "i", "j", "k", "l", "m", "n", "o",
     "p", "q", "r", "s", "t", "u", "v", "w", "x", "y", "z", "{", "|", "}", "~" >>

Chars == {Printable[i] : i \in 1..Len(Printable)} \cup {"\t", "\n", "\r", "\f"}

\* Code point of a character.
OrdMap ==
  [c \in Chars |->
     IF c = "\t" THEN 9
     ELSE IF c = "\n" THEN 10
     ELSE IF c = "\f" THEN 12
     ELSE IF c = "\r" THEN 13
     ELSE 31 + (CHOOSE i \in 1..Len(Printable) : Printable[i] = c)]

ord(c) == OrdMap[c]

\* str.lower() on one character, and on a string.
LowerMap ==
  [c \in Chars |-> IF OrdMap[c] \in 65..90 THEN Printable[OrdMap[c] + 32 - 31] ELSE c]

lower(s) == [i \in 1..Len(s) |-> LowerMap[s[i]]]

\* Whitespace of str.strip() and of the regex class \s.
Whitespace == {" ", "\t", "\n", "\r", "\f"}

\* The regex class \w.
WordChars == {c \in Chars : \/ OrdMap[c] \in 48..57
                            \/ OrdMap[c] \in 65..90
                            \/ OrdMap[c] \in 97..122
                            \/ c = "_"}

\* An Optional value (T | None) is a sequence of at most one element.
None == << >>

Some(v) == << v >>

\* s[i:j] of Python with 0 <= i: the elements at 1-based places i+1 .. j; a
\* negative j counts from the end.
Slice(s, i, j) ==
  LET end == IF j < 0 THEN (IF Len(s) + j < 0 THEN 0 ELSE Len(s) + j)
             ELSE IF j < Len(s) THEN j ELSE Len(s)
  IN  SubSeq(s, i + 1, end)

\* s.lstrip(chars): drop the leading characters that are in chars.
lstrip(s, chars) ==
  LET keep == {i \in 1..Len(s) : s[i] \notin chars}
  IN  IF keep = {} THEN << >>
      ELSE SubSeq(s, CHOOSE i \in keep : \A j \in keep : i <= j, Len(s))

\* s.rstrip(chars)
rstrip(s, chars) ==
  LET keep == {i \in 1..Len(s) : s[i] \notin chars}
  IN  IF keep = {} THEN << >>
      ELSE SubSeq(s, 1, CHOOSE i \in keep : \A j \in keep : i >= j)

\* s.strip()
strip(s) == rstrip(lstrip(s, Whitespace), Whitespace)

\* s.startswith(p) at 0-based offset i
MatchAt(s, i, p) ==
  /\ i + Len(p) <= Len(s)
  /\ \A k \in 1..Len(p) : s[i + k] = p[k]

\* content.split("\n", 1)[0]: the text before the first newline.
FirstSplit(s, sep) ==
  LET at == {i \in 1..Len(s) : s[i] = sep}
  IN  IF at = {} THEN s
      ELSE SubSeq(s, 1, (CHOOSE i \in at : \A j \in at : i <= j) - 1)

\* re.split(r"[...]", s) for a class of single characters: every separator
\* character ends a piece (pieces may be empty).
RECURSIVE SplitOn(_, _)
SplitOn(s, seps) ==
  LET at == {i \in 1..Len(s) : s[i] \in seps}
  IN  IF at = {} THEN << s >>
      ELSE LET i == CHOOSE i \in at : \A j \in at : i <= j
           IN  << SubSeq(s, 1, i - 1) >> \o SplitOn(SubSeq(s, i + 1, Len(s)), seps)

\* re.split(r"[...]+", s): as SplitOn, but a run of separators is one separator.
RECURSIVE SplitOnRuns(_, _)
SplitOnRuns(s, seps) ==
  LET at == {i \in 1..Len(s) : s[i] \in seps}
  IN  IF at = {} THEN << s >>
      ELSE LET i == CHOOSE i \in at : \A j \in at : i <= j
           IN  << SubSeq(s, 1, i - 1) >>
               \o SplitOnRuns(lstrip(SubSeq(s, i + 1, Len(s)), seps), seps)

\* Order of str comparison: by code point, a proper prefix first.
RECURSIVE StrLess(_, _)
StrLess(a, b) ==
  IF b = << >> THEN FALSE
  ELSE IF a = << >> THEN TRUE
  ELSE IF a[1] # b[1] THEN ord(a[1]) < ord(b[1])
  ELSE StrLess(Tail(a), Tail(b))

\* sorted(keys) of a set of str.
RECURSIVE sorted(_)
sorted(S) ==
  IF S = {} THEN << >>
  ELSE LET m == CHOOSE x \in S : \A y \in S : x = y \/ StrLess(x, y)
       IN  << m >> \o sorted(S \ {m})

(***************************************************************************)
(* dict, in insertion order                                                *)
(***************************************************************************)

DictKeys(d) == {d[i][1] : i \in 1..Len(d)}

\* d.get(k): the value, or None.
DictGet(d, k) ==
  IF k \in DictKeys(d)
  THEN Some(d[CHOOSE i \in 1..Len(d) : d[i][1] = k][2])
  ELSE None

\* d[k] = v: overwrite in place, or append.
DictSet(d, k, v) ==
  IF k \in DictKeys(d)
  THEN [i \in 1..Len(d) |-> IF d[i][1] = k THEN << k, v >> ELSE d[i]]
  ELSE Append(d, << k, v >>)

(***************************************************************************)
(* Guide matching: AgentIndex._scan_guides and its two matchers            *)
(***************************************************************************)

\* re.search(r"\(([^)]+)\)", title): group 1 of the leftmost match, or None.
\* A match starts at a "(" whose next ")" is at least two places further on.
SearchParenthetical(title) ==
  LET closeAfter(i) == {j \in (i + 1)..Len(title) : title[j] = ")"}
      firstClose(i) == CHOOSE j \in closeAfter(i) : \A k \in closeAfter(i) : j <= k
      starts == {i \in 1..Len(title) :
                   /\ title[i] = "("
                   /\ closeAfter(i) # {}
                   /\ firstClose(i) > i + 1}
  IN  IF starts = {} THEN None
      ELSE LET i == CHOOSE i \in starts : \A k \in starts : i <= k
           IN  Some(SubSeq(title, i + 1, firstClose(i) - 1))

Database == << "D", "a", "t", "a", "b", "a", "s", "e" >>

\* re.sub(r"\s+Databases?\s*$", "", candidate): the leftmost place from which
\* whitespace, "Database", an optional "s" and whitespace reach the end.
SubDatabaseSuffix(candidate) ==
  LET n == Len(candidate)
      tailOk(j) == \* candidate[j:] matches s?\s*$  (j is 0-based)
        \/ \A k \in (j + 1)..n : candidate[k] \in Whitespace
        \/ /\ j < n
           /\ candidate[j + 1] = "s"
           /\ \A k \in (j + 2)..n : candidate[k] \in Whitespace
      \* 0-based i: candidate[i:] matches the whole pattern
      matches(i) ==
        \E j \in (i + 1)..n :
           /\ \A k \in (i + 1)..j : candidate[k] \in Whitespace
           /\ MatchAt(candidate, j, Database)
           /\ tailOk(j + Len(Database))
      at == {i \in 0..(n - 1) : matches(i)}
  IN  IF at = {} THEN candidate
      ELSE SubSeq(candidate, 1, CHOOSE i \in at : \A k \in at : i <= k)

\* re.search(r"(\w+)\s+Database", title): group 1 of the leftmost match, or
\* None.  From a start i the word must run up to whitespace, so group 1 is
\* title[i:e] for the end e of the run of word characters that holds i.
SearchWordDatabase(title) ==
  LET n == Len(title)
      \* 0-based i, e: title[i:e] are word characters, whitespace and then
      \* "Database" follow
      matches(i, e) ==
        /\ \A k \in (i + 1)..e : title[k] \in WordChars
        /\ \E j \in (e + 1)..n :
              /\ \A k \in (e + 1)..j : title[k] \in Whitespace
              /\ MatchAt(title, j, Database)
      at == {i \in 0..(n - 1) : \E e \in (i + 1)..n : matches(i, e)}
  IN  IF at = {} THEN None
      ELSE LET i == CHOOSE i \in at : \A k \in at : i <= k
               \* greedy \w+: the longest group that still matches
               es == {e \in (i + 1)..n : matches(i, e)}
               e == CHOOSE e \in es : \A k \in es : e >= k
           IN  Some(SubSeq(title, i + 1, e))

\* The parenthetical branch of _extract_schema_from_title: the first candidate
\* between the parentheses that is a known schema, or None.
RECURSIVE FirstKnownCandidate(_, _)
FirstKnownCandidate(candidates, known_lower) ==
  IF candidates = << >> THEN None
  ELSE LET candidate == strip(SubDatabaseSuffix(strip(Head(candidates))))
       IN  IF lower(candidate) \in DOMAIN known_lower
           THEN Some(known_lower[lower(candidate)])
           ELSE FirstKnownCandidate(Tail(candidates), known_lower)

MatchParenthetical(title, known_lower) ==
  LET m == SearchParenthetical(title)
  IN  IF m # None
      THEN FirstKnownCandidate(SplitOn(m[1], {"/", ","}), known_lower)
      ELSE None

\* The fallback branch of _extract_schema_from_title: "<word> Database".
MatchWordDatabase(title, known_lower) ==
  LET m2 == SearchWordDatabase(title)
  IN  IF m2 # None /\ lower(m2[1]) \in DOMAIN known_lower
      THEN Some(known_lower[lower(m2[1])])
      ELSE None

_extract_schema_from_title(title, known_lower) ==
  LET byParens == MatchParenthetical(title, known_lower)
  IN  IF byParens # None THEN byParens
      ELSE MatchWordDatabase(title, known_lower)

RECURSIVE FirstKnownToken(_, _)
FirstKnownToken(tokens, known_lower) ==
  IF tokens = << >> THEN None
  ELSE IF Head(tokens) \in DOMAIN known_lower
       THEN Some(known_lower[Head(tokens)])
       ELSE FirstKnownToken(Tail(tokens), known_lower)

\* _fuzzy_match_filename returning the token it found, not the schema name
\* the token stands for.
RECURSIVE FirstKnownTokenItself(_, _)
FirstKnownTokenItself(tokens, known_lower) ==
  IF tokens = << >> THEN None
  ELSE IF Head(tokens) \in DOMAIN known_lower
       THEN Some(Head(tokens))
       ELSE FirstKnownTokenItself(Tail(tokens), known_lower)

_fuzzy_match_filename_ReturnsToken(stem, known_lower) ==
  FirstKnownTokenItself(SplitOnRuns(lower(stem), {"_", "-"} \cup Whitespace), known_lower)

_fuzzy_match_filename(stem, known_lower) ==
  FirstKnownToken(SplitOnRuns(lower(stem), {"_", "-"} \cup Whitespace), known_lower)

(***************************************************************************)
(* State                                                                   *)
(***************************************************************************)

VARIABLES
  pc,          \* where AgentIndex.build() stands: "build", "scan_guides",
               \* "save_cache", "ready" (the index is returned)
  schemas,     \* AgentIndex.schemas: dict schema -> dict table -> TableInfo
  guides,      \* AgentIndex.guides: dict schema -> GuideInfo
  scanned,     \* names of the guide files _scan_guides has read, in order
  cache,       \* Optional: the document _save_cache wrote to CACHE_PATH
  agents,      \* per agent, the closure variables of its tools:
               \* _schemas_listed, _described, _fetched
  log,         \* per agent, the tool calls it made with what each returned
  ret          \* Optional: the last call of the public query API, with
               \* what it returned

vars == << pc, schemas, guides, scanned, cache, agents, log, ret >>

(***************************************************************************)
(* Database scanning: AgentIndex._scan_database                            *)
(***************************************************************************)

SAMPLE_ROWS == 3

YES == << "Y", "E", "S" >>

SystemSchemas == { << "i", "n", "f", "o", "r", "m", "a", "t", "i", "o", "n", "_", "s", "c", "h", "e", "m", "a" >>,
                   << "p", "g", "_", "c", "a", "t", "a", "l", "o", "g" >> }

BaseTable == "BASE TABLE"

\* str(v) of a natural number.
RECURSIVE Decimal(_)
Decimal(n) ==
  IF n < 10 THEN << Printable[n + 17] >>
  ELSE Decimal(n \div 10) \o << Printable[(n % 10) + 17] >>

\* str(v) of a cell: NULL comes back as Python's None.
str(v) == IF v.null THEN << "N", "o", "n", "e" >> ELSE Decimal(v.int)

\* ColumnInfo(name=cn, type=dt, nullable=nu == "YES") for each column row.
ScanColumns(col_rows) ==
  [i \in 1..Len(col_rows) |->
     [name     |-> col_rows[i].column_name,
      type     |-> col_rows[i].data_type,
      nullable |-> col_rows[i].is_nullable = YES]]

\* The SELECT * ... LIMIT SAMPLE_ROWS of one table, every cell through str();
\* a query that raises leaves the sample empty.
ScanSampleRows(t) ==
  IF ~t.readable THEN << >>
  ELSE LET rows == Slice(t.rows, 0, SAMPLE_ROWS)
       IN  [r \in 1..Len(rows) |-> [j \in 1..Len(rows[r]) |-> str(rows[r][j])]]

\* The tables dict of one schema: its base tables, in name order.
ScanTables(table_rows) ==
  LET base == SelectSeq(table_rows, LAMBDA t : t.table_type = BaseTable)
  IN  [i \in 1..Len(base) |->
         << base[i].table_name,
            [columns     |-> ScanColumns(base[i].columns),
             sample_rows |-> ScanSampleRows(base[i])] >>]

\* db: the rows of information_schema.tables grouped by schema, schemas and
\* tables in name order.
_scan_database(db) ==
  LET schema_rows == SelectSeq(db, LAMBDA s : s.table_schema \notin SystemSchemas)
  IN  [i \in 1..Len(schema_rows) |->
         << schema_rows[i].table_schema, ScanTables(schema_rows[i].tables) >>]

(***************************************************************************)
(* Guide scanning: the loop of AgentIndex._scan_guides                     *)
(***************************************************************************)

\* {s.lower(): s for s in self.schemas}: a later schema replaces an earlier
\* one that has the same lowercase name.
SchemaNamesLower(schemasDict) ==
  LET at(l) == {i \in 1..Len(schemasDict) : lower(schemasDict[i][1]) = l}
  IN  [l \in {lower(k) : k \in DictKeys(schemasDict)} |->
         schemasDict[CHOOSE i \in at(l) : \A j \in at(l) : i >= j][1]]

\* content.split("\n", 1)[0].strip().lstrip("# ").strip()
FirstLine(content) ==
  strip(lstrip(strip(FirstSplit(content, "\n")), {"#", " "}))

MdSuffix == << ".", "m", "d" >>

\* guide_path.name of a file given by its stem.
FileName(stem) == stem \o MdSuffix

\* The matching with the file name tried before the title.
MatchGuide_FilenameFirst(stem, content, known_lower) ==
  LET schema_name == _fuzzy_match_filename(stem, known_lower)
  IN  IF schema_name = None
      THEN _extract_schema_from_title(FirstLine(content), known_lower)
      ELSE schema_name

\* The schema one guide file is matched to, or None.
MatchGuide(stem, content, known_lower) ==
  LET schema_name == _extract_schema_from_title(FirstLine(content), known_lower)
  IN  IF schema_name = None
      THEN _fuzzy_match_filename(stem, known_lower)
      ELSE schema_name

\* One iteration of the loop: the guides dict after the file is handled.
ScanGuideFile(guidesDict, schemasDict, stem, content) ==
  LET schema_name == MatchGuide(stem, content, SchemaNamesLower(schemasDict))
  IN  IF schema_name # None
      THEN DictSet(guidesDict, schema_name[1],
                   [file |-> FileName(stem), content |-> content])
      ELSE guidesDict

\* The whole loop over a directory listing (a sequence of <<stem, content>>
\* in sorted order).
RECURSIVE ScanGuideFiles(_, _, _)
ScanGuideFiles(guidesDict, schemasDict, files) ==
  IF files = << >> THEN guidesDict
  ELSE ScanGuideFiles(
         ScanGuideFile(guidesDict, schemasDict, Head(files)[1], Head(files)[2]),
         schemasDict, Tail(files))

\* The data dict _save_cache serialises.
CacheData(schemasDict, guidesDict) ==
  [schemas |->
     [i \in 1..Len(schemasDict) |->
        << schemasDict[i][1],
           [t \in 1..Len(schemasDict[i][2]) |->
              << schemasDict[i][2][t][1],
                 [columns |->
                    [c \in 1..Len(schemasDict[i][2][t][2].columns) |->
                       [name     |-> schemasDict[i][2][t][2].columns[c].name,
                        type     |-> schemasDict[i][2][t][2].columns[c].type,
                        nullable |-> schemasDict[i][2][t][2].columns[c].nullable]],
                  sample_rows |-> schemasDict[i][2][t][2].sample_rows] >>] >>],
   guides |->
     [i \in 1..Len(guidesDict) |->
        << guidesDict[i][1],
           [file |-> guidesDict[i][2].file, content |-> guidesDict[i][2].content] >>]]

(***************************************************************************)
(* Returned text                                                           *)
(***************************************************************************)

\* A fragment of a returned str: a literal of the source, or a value
\* formatted into it.
Lit(l) == [lit |-> l, str |-> << >>]

Str(v) == [lit |-> "", str |-> v]

\* sep.join(items) for items that are texts (sequences of fragments).
RECURSIVE Join(_, _)
Join(items, sep) ==
  IF items = << >> THEN << >>
  ELSE IF Len(items) = 1 THEN items[1]
  ELSE items[1] \o << sep >> \o Join(Tail(items), sep)

\* sep.join(names) for a list of str.
JoinStr(names, sep) == Join([i \in 1..Len(names) |-> << Str(names[i]) >>], Lit(sep))

\* "-" * n
RECURSIVE Dashes(_)
Dashes(n) == IF n <= 0 THEN << >> ELSE << "-" >> \o Dashes(n - 1)

RECURSIVE Sum(_)
Sum(ns) == IF ns = << >> THEN 0 ELSE Head(ns) + Sum(Tail(ns))

(***************************************************************************)
(* Public query API of AgentIndex                                          *)
(***************************************************************************)

DEFAULT_MAX_COLUMNS == 40

get_schema_list(schemasDict) == sorted(DictKeys(schemasDict))

get_tables(schemasDict, schema) ==
  LET tables == DictGet(schemasDict, schema)
  IN  IF tables = None THEN << >> ELSE sorted(DictKeys(tables[1]))

get_table_info(schemasDict, schema, table) ==
  LET tables == DictGet(schemasDict, schema)
  IN  IF tables = None THEN None ELSE DictGet(tables[1], table)

\* The description with the sample rows shown whether or not the columns are
\* truncated.
DescriptionLines_SamplesWhenTruncated(info, schema, table, max_columns) ==
  LET columns == info.columns
      truncated == Len(columns) > max_columns
      display_cols == Slice(columns, 0, max_columns)
      head == << << Lit("Table: "), Str(schema), Lit("."), Str(table), Lit(" ("),
                    Str(Decimal(Len(columns))), Lit(" columns)") >>,
                 << >>,
                 << Lit("Columns:") >> >>
      cols == [i \in 1..Len(display_cols) |->
                 << Lit("  "), Str(display_cols[i].name), Lit(" ("),
                    Str(display_cols[i].type),
                    Lit(IF display_cols[i].nullable THEN ", nullable" ELSE ""),
                    Lit(")") >>]
      more == IF truncated
              THEN << << Lit("  ... and "), Str(Decimal(Len(columns) - max_columns)),
                         Lit(" more columns") >>,
                      << Lit("  (Use run_query with SELECT * ... LIMIT 3 to see all columns)") >> >>
              ELSE << >>
      col_names == [i \in 1..Len(display_cols) |-> display_cols[i].name]
      samples == IF info.sample_rows # << >>
                 THEN << << >>,
                         << Lit("Sample rows ("), Str(Decimal(Len(info.sample_rows))),
                            Lit("):") >>,
                         << Lit("  ") >> \o JoinStr(col_names, " | "),
                         << Lit("  "),
                            Str(Dashes(Sum([i \in 1..Len(col_names) |->
                                              Len(col_names[i]) + 3]))) >> >>
                      \o [r \in 1..Len(info.sample_rows) |->
                            << Lit("  ") >>
                            \o JoinStr(Slice(info.sample_rows[r], 0, max_columns), " | ")]
                 ELSE << >>
  IN  head \o cols \o more \o samples

\* The lines of the description of a table that exists.
DescriptionLines(info, schema, table, max_columns) ==
  LET columns == info.columns
      truncated == Len(columns) > max_columns
      display_cols == Slice(columns, 0, max_columns)
      head == << << Lit("Table: "), Str(schema), Lit("."), Str(table), Lit(" ("),
                    Str(Decimal(Len(columns))), Lit(" columns)") >>,
                 << >>,
                 << Lit("Columns:") >> >>
      cols == [i \in 1..Len(display_cols) |->
                 << Lit("  "), Str(display_cols[i].name), Lit(" ("),
                    Str(display_cols[i].type),
                    Lit(IF display_cols[i].nullable THEN ", nullable" ELSE ""),
                    Lit(")") >>]
      more == IF truncated
              THEN << << Lit("  ... and "), Str(Decimal(Len(columns) - max_columns)),
                         Lit(" more columns") >>,
                      << Lit("  (Use run_query with SELECT * ... LIMIT 3 to see all columns)") >> >>
              ELSE << >>
      col_names == [i \in 1..Len(display_cols) |-> display_cols[i].name]
      samples == IF info.sample_rows # << >> /\ ~truncated
                 THEN << << >>,
                         << Lit("Sample rows ("), Str(Decimal(Len(info.sample_rows))),
                            Lit("):") >>,
                         << Lit("  ") >> \o JoinStr(col_names, " | "),
                         << Lit("  "),
                            Str(Dashes(Sum([i \in 1..Len(col_names) |->
                                              Len(col_names[i]) + 3]))) >> >>
                      \o [r \in 1..Len(info.sample_rows) |->
                            << Lit("  ") >>
                            \o JoinStr(Slice(info.sample_rows[r], 0, max_columns), " | ")]
                 ELSE << >>
  IN  head \o cols \o more \o samples

get_table_description(schemasDict, schema, table, max_columns) ==
  LET info == get_table_info(schemasDict, schema, table)
  IN  IF info = None
      THEN << Lit("Table '"), Str(schema), Lit("."), Str(table), Lit("' not found.") >>
      ELSE Join(DescriptionLines(info[1], schema, table, max_columns), Lit("\n"))

\* Optional: the content of the guide of a schema.
get_business_rules_of_index(guidesDict, schema) ==
  LET guide == DictGet(guidesDict, schema)
  IN  IF guide # None THEN Some(guide[1].content) ELSE None

get_all_guide_topics(guidesDict) == sorted(DictKeys(guidesDict))

(***************************************************************************)
(* The tools of one agent: make_explore_tools, make_business_rules_tool    *)
(***************************************************************************)

\* The closure variables as make_explore_tools and make_business_rules_tool
\* set them.
NewTools == [_schemas_listed |-> FALSE, _described |-> {}, _fetched |-> {}]

\* The refusals (the dash of the source is written -- here).
SchemasListedRefusal ==
  << Lit("You already listed schemas above. "),
     Lit("Do NOT call this again -- proceed to the next step.") >>

DescribedRefusal(schema_name, table_name) ==
  << Lit("You already described "), Str(schema_name), Lit("."), Str(table_name),
     Lit(" above. "),
     Lit("Do NOT call describe_table on the same table again -- "),
     Lit("use the information you already have and write your query.") >>

FetchedRefusal(schema_name) ==
  << Lit("You already retrieved business rules for '"), Str(schema_name),
     Lit("' above. "),
     Lit("Do NOT call this again -- use the rules you already have.") >>

\* The listing with every schema, guided or not, among the other schemas.
SchemaListing_OthersUnfiltered(schemasDict, guidesDict) ==
  LET topics == get_all_guide_topics(guidesDict)
      guided == {topics[i] : i \in 1..Len(topics)}
      all_schemas == get_schema_list(schemasDict)
      guided_schemas == SelectSeq(all_schemas, LAMBDA x : x \in guided)
      other_schemas == all_schemas
      lines ==
        << << Lit("Available schemas and their tables:") >>,
           << >>,
           << Lit("Schemas with business rules guides (most likely relevant):") >> >>
        \o [i \in 1..Len(guided_schemas) |->
              << Lit("  - "), Str(guided_schemas[i]), Lit(": ") >>
              \o JoinStr(get_tables(schemasDict, guided_schemas[i]), ", ")]
        \o << << >>,
              << Lit("Other schemas (no guide): ") >> \o JoinStr(other_schemas, ", ") >>
  IN  Join(lines, Lit("\n"))

\* The listing the first list_schemas() returns.
SchemaListing(schemasDict, guidesDict) ==
  LET topics == get_all_guide_topics(guidesDict)
      guided == {topics[i] : i \in 1..Len(topics)}
      all_schemas == get_schema_list(schemasDict)
      guided_schemas == SelectSeq(all_schemas, LAMBDA x : x \in guided)
      other_schemas == SelectSeq(all_schemas, LAMBDA x : x \notin guided)
      lines ==
        << << Lit("Available schemas and their tables:") >>,
           << >>,
           << Lit("Schemas with business rules guides (most likely relevant):") >> >>
        \o [i \in 1..Len(guided_schemas) |->
              << Lit("  - "), Str(guided_schemas[i]), Lit(": ") >>
              \o JoinStr(get_tables(schemasDict, guided_schemas[i]), ", ")]
        \o << << >>,
              << Lit("Other schemas (no guide): ") >> \o JoinStr(other_schemas, ", ") >>
  IN  Join(lines, Lit("\n"))

\* list_schemas without its nonlocal declaration: the flag it sets is a
\* local of the call.
list_schemas_FlagNotKept(tools, schemasDict, guidesDict) ==
  IF tools._schemas_listed
  THEN [tools |-> tools, out |-> SchemasListedRefusal]
  ELSE [tools |-> tools, out |-> SchemaListing(schemasDict, guidesDict)]

\* Each tool: the closure variables after the call (tools) and the str it
\* returns (out).
list_schemas(tools, schemasDict, guidesDict) ==
  IF tools._schemas_listed
  THEN [tools |-> tools, out |-> SchemasListedRefusal]
  ELSE [tools |-> [tools EXCEPT !._schemas_listed = TRUE],
        out   |-> SchemaListing(schemasDict, guidesDict)]

list_tables(tools, schemasDict, schema_name) ==
  LET tables == get_tables(schemasDict, schema_name)
  IN  [tools |-> tools,
       out   |-> IF tables = << >>
                 THEN << Lit("Schema '"), Str(schema_name), Lit("' not found.\n"),
                         Lit("Available schemas: ") >>
                      \o JoinStr(get_schema_list(schemasDict), ", ")
                 ELSE << Lit("Tables in "), Str(schema_name), Lit(":\n") >>
                      \o Join([i \in 1..Len(tables) |-> << Lit("  - "), Str(tables[i]) >>],
                              Lit("\n"))]

\* describe_table with the schema alone as its key.
describe_table_KeyedBySchema(tools, schemasDict, schema_name, table_name) ==
  LET key == << schema_name, << >> >>
  IN  IF key \in tools._described
      THEN [tools |-> tools, out |-> DescribedRefusal(schema_name, table_name)]
      ELSE [tools |-> [tools EXCEPT !._described = @ \cup {key}],
            out   |-> get_table_description(schemasDict, schema_name, table_name,
                                            DEFAULT_MAX_COLUMNS)]

describe_table(tools, schemasDict, schema_name, table_name) ==
  LET key == << schema_name, table_name >>
  IN  IF key \in tools._described
      THEN [tools |-> tools, out |-> DescribedRefusal(schema_name, table_name)]
      ELSE [tools |-> [tools EXCEPT !._described = @ \cup {key}],
            out   |-> get_table_description(schemasDict, schema_name, table_name,
                                            DEFAULT_MAX_COLUMNS)]

get_business_rules(tools, guidesDict, schema_name) ==
  IF schema_name \in tools._fetched
  THEN [tools |-> tools, out |-> FetchedRefusal(schema_name)]
  ELSE LET content == get_business_rules_of_index(guidesDict, schema_name)
       IN  [tools |-> [tools EXCEPT !._fetched = @ \cup {schema_name}],
            out   |-> IF content # None
                      THEN << Str(content[1]) >>
                      ELSE << Lit("No business rules guide found for schema '"),
                              Str(schema_name), Lit("'.\n"),
                              Lit("Available guide topics: ") >>
                           \o JoinStr(get_all_guide_topics(guidesDict), ", ")]

(***************************************************************************)
(* Inputs: databases and guide directories                                 *)
(***************************************************************************)

fin == << "f", "i", "n" >>
Cr == << "C", "r" >>
cr == << "c", "r" >>
zz == << "z", "z" >>
loan == << "l", "o", "a", "n" >>
acct == << "a", "c", "c", "t" >>
card == << "c", "a", "r", "d" >>
nope == << "n", "o", "p", "e" >>
v_loan == << "v", "_", "l", "o", "a", "n" >>
INT == << "I", "N", "T" >>
NO == << "N", "O" >>

\* Column i of a table: c1, c2, ...; the odd ones nullable.
ColumnRow(i) ==
  [column_name |-> << "c" >> \o Decimal(i),
   data_type   |-> INT,
   is_nullable |-> IF i % 2 = 1 THEN YES ELSE NO]

\* Row r of a table of n columns; some cells NULL.
DataRow(r, n) == [j \in 1..n |-> [null |-> (r + j) % 3 = 0, int |-> 10 * r + j]]

\* A row of information_schema.tables with what the scan reads of the table:
\* n columns, k rows, and whether SELECT * succeeds.
TableRow(name, type, n, k, readable) ==
  [table_name |-> name,
   table_type |-> type,
   columns    |-> [i \in 1..n |-> ColumnRow(i)],
   rows       |-> [r \in 1..k |-> DataRow(r, n)],
   readable   |-> readable]

SchemaRow(name, tables) == [table_schema |-> name, tables |-> tables]

\* One schema, a view beside its tables, a table that cannot be sampled, and
\* the system schemas.
DbFin ==
  << SchemaRow(fin, << TableRow(acct, BaseTable, 1, 2, FALSE),
                       TableRow(loan, BaseTable, 2, 4, TRUE),
                       TableRow(v_loan, "VIEW", 2, 4, TRUE) >>),
     SchemaRow(<< "i", "n", "f", "o", "r", "m", "a", "t", "i", "o", "n", "_", "s", "c", "h", "e", "m", "a" >>,
               << TableRow(acct, "VIEW", 1, 0, TRUE) >>),
     SchemaRow(<< "p", "g", "_", "c", "a", "t", "a", "l", "o", "g" >>,
               << TableRow(acct, BaseTable, 1, 0, TRUE) >>) >>

\* Two schemas, one with a capital in its name.
DbCrFin ==
  << SchemaRow(Cr, << TableRow(card, BaseTable, 1, 0, TRUE) >>),
     SchemaRow(fin, << TableRow(loan, BaseTable, 2, 1, TRUE) >>) >>

\* Two schemas whose names differ in case only, one holding views only.
DbCrcr ==
  << SchemaRow(Cr, << TableRow(v_loan, "VIEW", 1, 0, TRUE) >>),
     SchemaRow(cr, << TableRow(card, BaseTable, 1, 1, TRUE) >>) >>

Databases == {DbFin, DbCrFin, DbCrcr}

\* The guide files a directory may hold: what a file says ...
GuideContents ==
  { \* a heading marker, a parenthetical with the suffix, a second line
    << "#", " ", "R", "u", "l", "e", "s", " ", "(", "F", "i", "n", " ", "D", "a", "t", "a", "b", "a", "s", "e", ")", "\n", "b", "o", "d", "y" >>,
    \* the second candidate between the parentheses
    << "R", "u", "l", "e", "s", " ", "(", "X", " ", "/", " ", "c", "r", ")" >>,
    \* a comma, the plural suffix, more whitespace
    << "R", "u", "l", "e", "s", " ", "(", "X", ",", " ", "F", "I", "N", " ", " ", "D", "a", "t", "a", "b", "a", "s", "e", "s", " ", ")" >>,
    \* no parentheses: <word> Database
    << "#", " ", "F", "i", "n", " ", "D", "a", "t", "a", "b", "a", "s", "e", " ", "R", "u", "l", "e", "s" >>,
    \* parentheses that name no schema, then <word> Database
    << "R", "u", "l", "e", "s", " ", "(", "X", ")", " ", "C", "R", " ", "D", "a", "t", "a", "b", "a", "s", "e" >>,
    \* the first <word> Database names no schema
    << "X", " ", "D", "a", "t", "a", "b", "a", "s", "e", " ", "F", "i", "n", " ", "D", "a", "t", "a", "b", "a", "s", "e" >>,
    \* no pattern
    << "N", "o", "t", "e", "s" >>,
    \* the parentheses and <word> Database disagree
    << "R", "u", "l", "e", "s", " ", "(", "F", "i", "n", ")", " ", "C", "r", " ", "D", "a", "t", "a", "b", "a", "s", "e" >>,
    \* empty parentheses first
    << "(", ")", " ", "(", "C", "r", ")" >>,
    \* parentheses never closed
    << "R", "u", "l", "e", "s", " ", "(", "F", "i", "n" >>,
    \* the suffix in lowercase
    << "(", "F", "i", "n", " ", "d", "a", "t", "a", "b", "a", "s", "e", ")" >>,
    \* a parenthetical on the second line only
    << "N", "o", "t", "e", "s", "\n", "(", "F", "i", "n", " ", "D", "a", "t", "a", "b", "a", "s", "e", ")" >>,
    \* an empty file
    << >> }

\* ... and what it is called (the stem of its name).
GuideStems ==
  { << "C", "r", " ", "g", "u", "i", "d", "e" >>,
    << "a", "_", "f", "i", "n", "-", "c", "r" >>,
    << "f", "i", "n", "_", "r", "u", "l", "e", "s" >>,
    << "n", "o", "t", "e", "s" >>,
    << "x", "-", "c", "r" >> }

\* How many guide files a directory holds at most.
MaxGuides == 2

(***************************************************************************)
(* AgentIndex.build()                                                      *)
(***************************************************************************)

NoAgents == << >>

InitBuild ==
  /\ pc = "build"
  /\ schemas = << >>
  /\ guides = << >>
  /\ scanned = << >>
  /\ cache = None
  /\ agents = NoAgents
  /\ log = NoAgents
  /\ ret = None

\* index._scan_database()
ScanDatabase(db) ==
  /\ pc = "build"
  /\ schemas' = _scan_database(db)
  /\ pc' = "scan_guides"
  /\ UNCHANGED << guides, scanned, cache, agents, log, ret >>

\* One iteration of the loop over sorted(GUIDES_DIR.glob("*.md")): the next
\* file comes after every file read so far.
ScanGuide(stem, content) ==
  /\ pc = "scan_guides"
  /\ Len(scanned) < MaxGuides
  /\ scanned # << >> => StrLess(scanned[Len(scanned)], FileName(stem))
  /\ scanned' = Append(scanned, FileName(stem))
  /\ guides' = ScanGuideFile(guides, schemas, stem, content)
  /\ UNCHANGED << pc, schemas, cache, agents, log, ret >>

\* _scan_guides returns: GUIDES_DIR does not exist, or the loop is through.
EndScanGuides ==
  /\ pc = "scan_guides"
  /\ pc' = "save_cache"
  /\ UNCHANGED << schemas, guides, scanned, cache, agents, log, ret >>

\* index._save_cache(); build() returns the index.
SaveCache ==
  /\ pc = "save_cache"
  /\ cache' = Some(CacheData(schemas, guides))
  /\ pc' = "ready"
  /\ UNCHANGED << schemas, guides, scanned, agents, log, ret >>

NextBuild ==
  \/ \E db \in Databases : ScanDatabase(db)
  \/ \E stem \in GuideStems, content \in GuideContents : ScanGuide(stem, content)
  \/ EndScanGuides
  \/ SaveCache

SpecBuild == InitBuild /\ [][NextBuild]_vars

(***************************************************************************)
(* Agents calling their tools on a built index                             *)
(***************************************************************************)

\* The agents (workers), each with its own tools from create_tools().
Agents == {"agent1", "agent2"}

\* How many tool calls the agents make in all.
MaxCalls == 3

\* The names the agents pass: a schema and tables that may exist, and names
\* that no database here has.
SchemaArgs == {fin, zz}

TableArgs == {loan, acct, nope}

\* Guide directories, each a sorted listing of <<stem, content>>.
DirEmpty == << >>

DirFin == << << << "f", "i", "n", "_", "r", "u", "l", "e", "s" >>,
                << "#", " ", "R", "u", "l", "e", "s", " ", "(", "F", "i", "n", " ", "D", "a", "t", "a", "b", "a", "s", "e", ")", "\n", "b", "o", "d", "y" >> >> >>

DirCr == << << << "C", "r", " ", "g", "u", "i", "d", "e" >>, << "N", "o", "t", "e", "s" >> >> >>

\* What build() is run on: a database and a guide directory.
BuildInputs == { << DbFin, DirEmpty >>, << DbFin, DirFin >>, << DbCrFin, DirCr >> }

\* The state build() leaves, as ScanDatabase, ScanGuide ... and SaveCache
\* reach it.
Built(db, dir) ==
  /\ pc = "ready"
  /\ schemas = _scan_database(db)
  /\ guides = ScanGuideFiles(<< >>, _scan_database(db), dir)
  /\ scanned = [i \in 1..Len(dir) |-> FileName(dir[i][1])]
  /\ cache = Some(CacheData(_scan_database(db),
                            ScanGuideFiles(<< >>, _scan_database(db), dir)))

Init ==
  /\ \E in \in BuildInputs : Built(in[1], in[2])
  /\ agents = [a \in Agents |-> NewTools]
  /\ log = [a \in Agents |-> << >>]
  /\ ret = None

RECURSIVE CallsOf(_)
CallsOf(as) ==
  IF as = {} THEN 0
  ELSE LET a == CHOOSE a \in as : TRUE IN Len(log[a]) + CallsOf(as \ {a})

MayCall == pc = "ready" /\ CallsOf(Agents) < MaxCalls

\* The call as the agent's transcript holds it.
Called(a, tool, args, r) ==
  /\ agents' = [agents EXCEPT ![a] = r.tools]
  /\ log' = [log EXCEPT ![a] = Append(@, [tool |-> tool, args |-> args, out |-> r.out])]

ListSchemas(a) ==
  /\ MayCall
  /\ Called(a, "list_schemas", << >>, list_schemas(agents[a], schemas, guides))
  /\ UNCHANGED << pc, schemas, guides, scanned, cache, ret >>

ListTables(a, schema_name) ==
  /\ MayCall
  /\ Called(a, "list_tables", << schema_name >>,
            list_tables(agents[a], schemas, schema_name))
  /\ UNCHANGED << pc, schemas, guides, scanned, cache, ret >>

\* describe_table with _described a module global, one set for all agents.
DescribeTable_SharedCache(a, schema_name, table_name) ==
  LET r == describe_table(agents[a], schemas, schema_name, table_name)
  IN  /\ MayCall
      /\ agents' = [b \in Agents |-> [agents[b] EXCEPT !._described = r.tools._described]]
      /\ log' = [log EXCEPT ![a] = Append(@, [tool |-> "describe_table",
                                              args |-> << schema_name, table_name >>,
                                              out  |-> r.out])]
      /\ UNCHANGED << pc, schemas, guides, scanned, cache, ret >>

\* describe_table over a get_table_info that looks the schema up with
\* setdefault: a schema the index does not have is added to it.
DescribeTable_InsertsSchema(a, schema_name, table_name) ==
  /\ MayCall
  /\ Called(a, "describe_table", << schema_name, table_name >>,
            describe_table(agents[a], schemas, schema_name, table_name))
  /\ schemas' = IF schema_name \in DictKeys(schemas)
                THEN schemas
                ELSE Append(schemas, << schema_name, << >> >>)
  /\ UNCHANGED << pc, guides, scanned, cache, ret >>

DescribeTable(a, schema_name, table_name) ==
  /\ MayCall
  /\ Called(a, "describe_table", << schema_name, table_name >>,
            describe_table(agents[a], schemas, schema_name, table_name))
  /\ UNCHANGED << pc, schemas, guides, scanned, cache, ret >>

GetBusinessRules(a, schema_name) ==
  /\ MayCall
  /\ Called(a, "get_business_rules", << schema_name >>,
            get_business_rules(agents[a], guides, schema_name))
  /\ UNCHANGED << pc, schemas, guides, scanned, cache, ret >>

Next ==
  \/ \E a \in Agents : ListSchemas(a)
  \/ \E a \in Agents, schema_name \in SchemaArgs : ListTables(a, schema_name)
  \/ \E a \in Agents, schema_name \in SchemaArgs, table_name \in TableArgs :
        DescribeTable(a, schema_name, table_name)
  \/ \E a \in Agents, schema_name \in SchemaArgs : GetBusinessRules(a, schema_name)

Spec == Init /\ [][Next]_vars

(***************************************************************************)
(* Readers calling the public query API on a built index                   *)
(***************************************************************************)

\* The widest table of the databases below, but for the one that is wider
\* than DEFAULT_MAX_COLUMNS.
MaxTableColumns == 3

\* One table of n columns and k rows.
DbWide(n, k) == << SchemaRow(fin, << TableRow(loan, BaseTable, n, k, TRUE) >>) >>

WideDatabases ==
  {DbWide(n, k) : n \in 1..MaxTableColumns, k \in 0..(SAMPLE_ROWS + 1)}
  \cup {DbWide(0, 0), DbWide(DEFAULT_MAX_COLUMNS + 2, 1), DbFin}

\* The max_columns a reader passes.
MaxColumnsArgs == (-1..(MaxTableColumns + 1)) \cup {DEFAULT_MAX_COLUMNS}

InitFacade ==
  /\ \E db \in WideDatabases, dir \in {DirEmpty, DirFin} : Built(db, dir)
  /\ agents = NoAgents
  /\ log = NoAgents
  /\ ret = None

\* A call of the public query API as a reader holds it: what was asked and
\* what came back.
Call(method, schema, table, max_columns, out) ==
  [method |-> method, schema |-> schema, table |-> table,
   max_columns |-> max_columns, out |-> out]

GetSchemaList ==
  /\ pc = "ready"
  /\ ret' = Some(Call("get_schema_list", << >>, << >>, 0, get_schema_list(schemas)))
  /\ UNCHANGED << pc, schemas, guides, scanned, cache, agents, log >>

GetTables(schema) ==
  /\ pc = "ready"
  /\ ret' = Some(Call("get_tables", schema, << >>, 0, get_tables(schemas, schema)))
  /\ UNCHANGED << pc, schemas, guides, scanned, cache, agents, log >>

GetTableInfo(schema, table) ==
  /\ pc = "ready"
  /\ ret' = Some(Call("get_table_info", schema, table, 0,
                      get_table_info(schemas, schema, table)))
  /\ UNCHANGED << pc, schemas, guides, scanned, cache, agents, log >>

GetTableDescription(schema, table, max_columns) ==
  /\ pc = "ready"
  /\ ret' = Some(Call("get_table_description", schema, table, max_columns,
                      get_table_description(schemas, schema, table, max_columns)))
  /\ UNCHANGED << pc, schemas, guides, scanned, cache, agents, log >>

GetBusinessRulesOfIndex(schema) ==
  /\ pc = "ready"
  /\ ret' = Some(Call("get_business_rules", schema, << >>, 0,
                      get_business_rules_of_index(guides, schema)))
  /\ UNCHANGED << pc, schemas, guides, scanned, cache, agents, log >>

GetAllGuideTopics ==
  /\ pc = "ready"
  /\ ret' = Some(Call("get_all_guide_topics", << >>, << >>, 0,
                      get_all_guide_topics(guides)))
  /\ UNCHANGED << pc, schemas, guides, scanned, cache, agents, log >>

NextFacade ==
  \/ GetSchemaList
  \/ \E schema \in SchemaArgs : GetTables(schema)
  \/ \E schema \in SchemaArgs, table \in TableArgs : GetTableInfo(schema, table)
  \/ \E schema \in SchemaArgs, table \in TableArgs, max_columns \in MaxColumnsArgs :
        GetTableDescription(schema, table, max_columns)
  \/ \E schema \in SchemaArgs : GetBusinessRulesOfIndex(schema)
  \/ GetAllGuideTopics

SpecFacade == InitFacade /\ [][NextFacade]_vars

(***************************************************************************)
(* Properties of the tools (under Spec)                                    *)
(***************************************************************************)

\* The table is in the index.
TableExists(schema, table) ==
  \E i \in 1..Len(schemas) :
     /\ schemas[i][1] = schema
     /\ \E t \in 1..Len(schemas[i][2]) : schemas[i][2][t][1] = table

\* The schema has a guide in the index.
HasGuide(schema) == \E i \in 1..Len(guides) : guides[i][1] = schema

\* The agent made the same call before its i-th call.
CalledBefore(a, i) ==
  \E j \in 1..(i - 1) :
     /\ log[a][j].tool = log[a][i].tool
     /\ log[a][j].args = log[a][i].args

NotFoundGuidance(schema, table) ==
  << Lit("Table '"), Str(schema), Lit("."), Str(table), Lit("' not found.") >>

NoGuideGuidance(schema) ==
  << Lit("No business rules guide found for schema '"), Str(schema), Lit("'.\n"),
     Lit("Available guide topics: ") >>
  \o JoinStr(sorted({guides[i][1] : i \in 1..Len(guides)}), ", ")

\* C1: every describe_table call of an agent for a table that is not in the
\* index, the first as any later one, returns the "not found" guidance, never
\* the "You already described" refusal.
C1_NotFoundNeverRefused ==
  \A a \in DOMAIN log : \A i \in 1..Len(log[a]) :
    LET e == log[a][i]
    IN  (e.tool = "describe_table" /\ ~TableExists(e.args[1], e.args[2]))
        => /\ e.out = NotFoundGuidance(e.args[1], e.args[2])
           /\ e.out # DescribedRefusal(e.args[1], e.args[2])

\* C2: every get_business_rules call of an agent for a schema that has no
\* guide returns the "No business rules guide found" text with the guide
\* topics, never the "You already retrieved" refusal, and such a schema never
\* enters the agent's fetched set.
C2_UnknownSchemaNeverRefused ==
  \A a \in DOMAIN log :
    /\ \A i \in 1..Len(log[a]) :
         LET e == log[a][i]
         IN  (e.tool = "get_business_rules" /\ ~HasGuide(e.args[1]))
             => e.out = NoGuideGuidance(e.args[1])
    /\ \A schema \in agents[a]._fetched : HasGuide(schema)

\* C3: a describe_table call for a table of the index returns the full
\* description when it is the agent's first call for that (schema, table) and
\* the refusal when it is a later one, whatever other keys the agent asked
\* for in between.
C3_DescribePerKey ==
  \A a \in DOMAIN log : \A i \in 1..Len(log[a]) :
    LET e == log[a][i]
    IN  (e.tool = "describe_table" /\ TableExists(e.args[1], e.args[2]))
        => e.out = IF CalledBefore(a, i)
                   THEN DescribedRefusal(e.args[1], e.args[2])
                   ELSE get_table_description(schemas, e.args[1], e.args[2],
                                              DEFAULT_MAX_COLUMNS)

\* An agent was refused a second fin.loan and then given fin.acct in full.
C3_Witness ==
  \E a \in DOMAIN log :
    /\ Len(log[a]) = 3
    /\ \A i \in 1..3 : log[a][i].tool = "describe_table"
    /\ log[a][1].args = << fin, loan >>
    /\ log[a][2].args = << fin, loan >>
    /\ log[a][3].args = << fin, acct >>
    /\ TableExists(fin, acct)
    /\ log[a][2].out = DescribedRefusal(fin, loan)
    /\ log[a][3].out = get_table_description(schemas, fin, acct, DEFAULT_MAX_COLUMNS)

\* The flag of an agent is set exactly when it has called list_schemas; its
\* first list_schemas returned the listing and every later one the refusal.
ListSchemasOnce ==
  \A a \in DOMAIN log :
    /\ agents[a]._schemas_listed = (\E i \in 1..Len(log[a]) : log[a][i].tool = "list_schemas")
    /\ \A i \in 1..Len(log[a]) :
         log[a][i].tool = "list_schemas"
         => log[a][i].out = IF CalledBefore(a, i)
                            THEN SchemasListedRefusal
                            ELSE SchemaListing(schemas, guides)

\* No step moves a flag from shown back to not-yet-shown.
ListedStaysListed ==
  \A a \in DOMAIN agents : agents[a]._schemas_listed => agents'[a]._schemas_listed

\* C4: the flag starts unset, the first list_schemas() returns the listing
\* and sets it, no tool call ever unsets it, and every later list_schemas()
\* returns the refusal.
C4_ListSchemasIrreversible == [] ListSchemasOnce /\ [][ListedStaysListed]_vars

\* An agent listed the schemas, made another call, and was refused a second
\* listing.
C4_Witness ==
  \E a \in DOMAIN log :
    /\ Len(log[a]) = 3
    /\ log[a][1].tool = "list_schemas"
    /\ log[a][2].tool = "get_business_rules"
    /\ log[a][3].tool = "list_schemas"
    /\ log[a][3].out = SchemasListedRefusal
    /\ agents[a]._schemas_listed

\* What a tool call does to the closure variables it is given.
Apply(tools, e) ==
  CASE e.tool = "list_schemas" -> list_schemas(tools, schemas, guides)
    [] e.tool = "list_tables" -> list_tables(tools, schemas, e.args[1])
    [] e.tool = "describe_table" -> describe_table(tools, schemas, e.args[1], e.args[2])
    [] e.tool = "get_business_rules" -> get_business_rules(tools, guides, e.args[1])

\* The closure variables of an agent after its first k calls, had no other
\* agent called anything.
RECURSIVE Alone(_, _)
Alone(a, k) ==
  IF k = 0 THEN NewTools ELSE Apply(Alone(a, k - 1), log[a][k]).tools

\* C5: every call of an agent returned what it returns when that agent is
\* the only one calling, and the agent's closure variables are what its own
\* calls alone make them.
C5_SessionIsolation ==
  \A a \in DOMAIN log :
    /\ agents[a] = Alone(a, Len(log[a]))
    /\ \A k \in 1..Len(log[a]) : log[a][k].out = Apply(Alone(a, k - 1), log[a][k]).out

\* One agent was refused its second fin.loan while the other got fin.loan in
\* full.
C5_Witness ==
  /\ Len(log["agent1"]) = 2
  /\ Len(log["agent2"]) = 1
  /\ \A i \in 1..2 : /\ log["agent1"][i].tool = "describe_table"
                     /\ log["agent1"][i].args = << fin, loan >>
  /\ log["agent1"][2].out = DescribedRefusal(fin, loan)
  /\ log["agent2"][1].tool = "describe_table"
  /\ log["agent2"][1].args = << fin, loan >>
  /\ log["agent2"][1].out = get_table_description(schemas, fin, loan, DEFAULT_MAX_COLUMNS)

\* The lines of a text: its fragments between the newline fragments.
LinesOf(text) == SplitOn(text, {Lit("\n")})

\* The str fragments of a sequence of fragments joined by a separator.
JoinedNames(frags) ==
  [i \in 1..((Len(frags) + 1) \div 2) |-> frags[2 * i - 1].str]

\* The lines of a listing that name a schema with a guide.
GuidedLines(text) ==
  SelectSeq(LinesOf(text), LAMBDA l : l # << >> /\ l[1] = Lit("  - "))

\* The schemas a listing names as having a guide, and as having none.
GuidedNamed(text) == [i \in 1..Len(GuidedLines(text)) |-> GuidedLines(text)[i][2].str]

OthersNamed(text) ==
  LET last == LinesOf(text)[Len(LinesOf(text))]
  IN  JoinedNames(Tail(last))

NoDuplicates(q) == \A i, j \in 1..Len(q) : q[i] = q[j] => i = j

\* The tables of a schema, in name order.
TablesOf(schema) ==
  LET i == CHOOSE i \in 1..Len(schemas) : schemas[i][1] = schema
  IN  sorted({schemas[i][2][t][1] : t \in 1..Len(schemas[i][2])})

\* The line names the schema and, after it, every table of the schema.
NamesWithTables(line, schema) ==
  \E i \in 1..Len(line) :
     /\ line[i] = Str(schema)
     /\ \A t \in 1..Len(TablesOf(schema)) :
           \E j \in (i + 1)..Len(line) : line[j] = Str(TablesOf(schema)[t])

\* The first list_schemas() results the agents hold.
Listings ==
  UNION {{log[a][i].out : i \in {k \in 1..Len(log[a]) :
                                   log[a][k].tool = "list_schemas" /\ ~CalledBefore(a, k)}} :
         a \in DOMAIN log}

\* C6 as claimed: the first listing names every schema once, the guided ones
\* first, and every schema, guided or not, with its table names.
C6_EverySchemaWithTables ==
  \A text \in Listings : \A i \in 1..Len(schemas) :
     \E l \in 1..Len(LinesOf(text)) : NamesWithTables(LinesOf(text)[l], schemas[i][1])

\* C6 as amended: the first listing names every schema of the index exactly
\* once; the schemas that have a guide come first, each on a line with its
\* table names; the schemas that have no guide come after, on one last line,
\* by name only.
C6_ListingContent ==
  \A text \in Listings :
    LET lines == LinesOf(text)
        last == lines[Len(lines)]
        G == GuidedNamed(text)
        O == OthersNamed(text)
    IN  /\ last # << >> /\ last[1] = Lit("Other schemas (no guide): ")
        /\ Tail(last) = JoinStr(O, ", ")
        /\ NoDuplicates(G \o O)
        /\ {(G \o O)[i] : i \in 1..Len(G \o O)} = {schemas[i][1] : i \in 1..Len(schemas)}
        /\ \A i \in 1..Len(G) : HasGuide(G[i])
        /\ \A i \in 1..Len(O) : ~HasGuide(O[i])
        /\ \A i \in 1..Len(G) :
              GuidedLines(text)[i]
                = << Lit("  - "), Str(G[i]), Lit(": ") >> \o JoinStr(TablesOf(G[i]), ", ")

\* An agent holds the listing of an index with a guided schema and an
\* unguided schema that has a table.
C6_Witness ==
  /\ Listings # {}
  /\ HasGuide(Cr)
  /\ ~HasGuide(fin)
  /\ TableExists(fin, loan)

\* C7: once build() has returned the index, no step changes its schemas or
\* its guides.
C7_IndexImmutable == [][pc = "ready" => (schemas' = schemas /\ guides' = guides)]_vars

\* Every tool has been called and dedup state has changed.
C7_Witness ==
  /\ pc = "ready"
  /\ \E a \in DOMAIN log : agents[a]._described # {} /\ agents[a]._fetched # {}
  /\ \E a \in DOMAIN log : agents[a]._schemas_listed

(***************************************************************************)
(* Properties of the build (under SpecBuild)                               *)
(***************************************************************************)

\* The elements of a list.
Elements(q) == {q[i] : i \in 1..Len(q)}

\* C8: during and after the guide scan every key of guides is a key of
\* schemas, so the guide topics are among the listed schemas.
C8_GuideKeysAreSchemas ==
  /\ \A i \in 1..Len(guides) : \E j \in 1..Len(schemas) : guides[i][1] = schemas[j][1]
  /\ Elements(get_all_guide_topics(guides)) \subseteq Elements(get_schema_list(schemas))

x_cr == << "x", "-", "c", "r" >>

\* The file x-cr.md, matched by its lowercase token cr, is the guide of the
\* schema named Cr.
C8_Witness ==
  /\ pc \in {"scan_guides", "save_cache", "ready"}
  /\ \E i \in 1..Len(guides) :
        /\ guides[i][1] = Cr
        /\ guides[i][2].file = FileName(x_cr)
        /\ MatchParenthetical(FirstLine(guides[i][2].content), SchemaNamesLower(schemas)) = None
        /\ MatchWordDatabase(FirstLine(guides[i][2].content), SchemaNamesLower(schemas)) = None

\* The schema the three rules give a guide file, tried in their order: the
\* parenthetical of the title, "<word> Database" in the title, a token of
\* the file name.
ChainTarget(stem, content) ==
  LET known == SchemaNamesLower(schemas)
      title == FirstLine(content)
      rule1 == MatchParenthetical(title, known)
      rule2 == MatchWordDatabase(title, known)
      rule3 == _fuzzy_match_filename(stem, known)
  IN  IF rule1 # None THEN rule1
      ELSE IF rule2 # None THEN rule2
      ELSE rule3

\* The value guides holds for a key, None when it holds none.
GuideOf(g, key) ==
  IF \E i \in 1..Len(g) : g[i][1] = key
  THEN Some(g[CHOOSE i \in 1..Len(g) : g[i][1] = key][2])
  ELSE None

\* The step attaches the file to the schema the rule chain gives, a schema of
\* the index, and to no other; a file no rule matches changes nothing.
FollowsChain(stem, content) ==
  LET target == ChainTarget(stem, content)
      keys == Elements([i \in 1..Len(guides) |-> guides[i][1]])
      keys2 == Elements([i \in 1..Len(guides') |-> guides'[i][1]])
  IN  IF target = None
      THEN guides' = guides
      ELSE /\ \E j \in 1..Len(schemas) : schemas[j][1] = target[1]
           /\ keys2 = keys \cup {target[1]}
           /\ GuideOf(guides', target[1])
                = Some([file |-> FileName(stem), content |-> content])
           /\ \A k \in keys \ {target[1]} : GuideOf(guides', k) = GuideOf(guides, k)

\* C9: every guide file is attached to at most one schema, the one the first
\* matching rule gives in the order title parenthetical, title "<word>
\* Database", file name token; a file that no rule matches leaves guides as
\* it was.
C9_RuleChain ==
  [][\A stem \in GuideStems, content \in GuideContents :
        ScanGuide(stem, content) => FollowsChain(stem, content)]_vars

\* The file x-cr.md, whose title names Fin between parentheses, is the guide
\* of fin although its name holds the token of the schema Cr.
C9_Witness ==
  /\ \E j \in 1..Len(schemas) : schemas[j][1] = Cr
  /\ \E i \in 1..Len(guides) :
        /\ guides[i][1] = fin
        /\ guides[i][2].file = FileName(x_cr)
        /\ _fuzzy_match_filename(x_cr, SchemaNamesLower(schemas)) = Some(Cr)

(***************************************************************************)
(* Properties of the public query API (under SpecFacade)                   *)
(***************************************************************************)

\* The TableInfo of a table that is in the index.
InfoOf(schema, table) ==
  LET i == CHOOSE i \in 1..Len(schemas) : schemas[i][1] = schema
      t == CHOOSE t \in 1..Len(schemas[i][2]) : schemas[i][2][t][1] = table
  IN  schemas[i][2][t][2]

Min(a, b) == IF a < b THEN a ELSE b

\* The line describes the column: its name, its type, whether it is nullable.
IsColumnLine(line, c) ==
  /\ Len(line) = 6
  /\ line[1] = Lit("  ")
  /\ line[2] = Str(c.name)
  /\ line[4] = Str(c.type)
  /\ line[5] = Lit(IF c.nullable THEN ", nullable" ELSE "")

IsSampleHeader(line) == line # << >> /\ line[1] = Lit("Sample rows (")

\* What C10 says of one description: n columns stored, m = max_columns.
TruncationHolds(info, schema, table, m, text) ==
  LET n == Len(info.columns)
      shown == Min(n, m)
      k == Len(info.sample_rows)
      lines == LinesOf(text)
  IN  /\ lines[1] = << Lit("Table: "), Str(schema), Lit("."), Str(table), Lit(" ("),
                       Str(Decimal(n)), Lit(" columns)") >>
      /\ lines[3] = << Lit("Columns:") >>
      /\ Len(lines) >= 3 + shown
      /\ \A i \in 1..shown : IsColumnLine(lines[3 + i], info.columns[i])
      /\ \A l \in (4 + shown)..Len(lines) :
            \A i \in 1..n : ~IsColumnLine(lines[l], info.columns[i])
      /\ n > m =>
            /\ lines[4 + shown] = << Lit("  ... and "), Str(Decimal(n - m)),
                                     Lit(" more columns") >>
            /\ \A l \in 1..Len(lines) : ~IsSampleHeader(lines[l])
      /\ (n <= m /\ k > 0) =>
            /\ k <= SAMPLE_ROWS
            /\ Len(lines) = 3 + n + 4 + k
            /\ IsSampleHeader(lines[3 + n + 2])
            /\ lines[3 + n + 3]
                 = << Lit("  ") >> \o JoinStr([i \in 1..n |-> info.columns[i].name], " | ")
            /\ \A r \in 1..k :
                  lines[3 + n + 4 + r] = << Lit("  ") >> \o JoinStr(info.sample_rows[r], " | ")

\* C10: the description of a table of n columns under max_columns >= 0 gives
\* the count n and exactly the first min(n, max_columns) columns in order;
\* with n > max_columns it adds "... and (n - max_columns) more columns" and
\* no sample rows; with n <= max_columns and sample rows stored it gives
\* exactly those rows (at most 3), in order, under all column names.
C10_Truncation ==
  (ret # None /\ ret[1].method = "get_table_description")
  => LET r == ret[1]
     IN  (r.max_columns >= 0 /\ TableExists(r.schema, r.table))
         => TruncationHolds(InfoOf(r.schema, r.table), r.schema, r.table,
                            r.max_columns, r.out)

\* A table of three columns with three sample rows stored was described
\* under max_columns = 2.
C10_Witness ==
  /\ ret # None
  /\ ret[1].method = "get_table_description"
  /\ ret[1].max_columns = 2
  /\ TableExists(ret[1].schema, ret[1].table)
  /\ Len(InfoOf(ret[1].schema, ret[1].table).columns) = 3
  /\ Len(InfoOf(ret[1].schema, ret[1].table).sample_rows) = 3

=============================================================================
